---- MODULE Spec2Model ----
(***************************************************************************)
(* Event / ticket lifecycle of the tickets service (src/app.py,            *)
(* src/models.py).  The database holds the events and tickets tables; each *)
(* request handler works on objects loaded into its own ORM session and    *)
(* the tables change only at db.session.commit().                          *)
(*                                                                         *)
(* A datetime is an integer: ordinal day * TicksPerDay + tick within the   *)
(* day, tick 0 being midnight exactly.  A date string "dd/mm/yyyy" is the  *)
(* triple <<dd, mm, yyyy>>; the empty string is <<>>.                      *)
(* Ticket.sold_at is written once at creation and never read by any        *)
(* handler; it is not carried in the ticket records.                       *)
(***************************************************************************)
EXTENDS Integers, Sequences, FiniteSets, TLC

\* ------------------------------------------------------------- bounds
MaxEvents == 1
MaxTickets == 2
MaxTicks == 3

\* Instants distinguished inside one calendar day (0 = midnight exactly).
TicksPerDay == 2

\* total_tickets range of create_event / update_event
MinTotal == 1
MaxTotal == 300

\* --------------------------------------------------------- request inputs
NameInputs == {"", "a", "b"}
DateInputs == {<<>>, <<31, 1, 2024>>, <<1, 2, 2024>>, <<30, 2, 2024>>}
TotalInputs == {-1, 0, 1, 2, 301}
\* Request bodies: every combination of the field values above in which at most
\* one field is missing, unparsable or out of range.
Defects(b) ==
    (IF b.name = "" THEN 1 ELSE 0)
    + (IF b.start_date \in {<<>>, <<30, 2, 2024>>} THEN 1 ELSE 0)
    + (IF b.end_date \in {<<>>, <<30, 2, 2024>>} THEN 1 ELSE 0)
    + (IF b.total_tickets \in {-1, 0, 301} THEN 1 ELSE 0)
Bodies ==
    {b \in [name : NameInputs, start_date : DateInputs, end_date : DateInputs,
            total_tickets : TotalInputs] : Defects(b) <= 1}
EventIds == 1 .. MaxEvents
TicketIds == 1 .. MaxTickets

\* ------------------------------------------------------ datetime library
IsLeap(y) == (y % 4 = 0) /\ ((y % 100 # 0) \/ (y % 400 = 0))

DaysInMonth(y, m) ==
    IF m = 2 THEN (IF IsLeap(y) THEN 29 ELSE 28)
    ELSE IF m \in {4, 6, 9, 11} THEN 30 ELSE 31

RECURSIVE DaysBeforeMonth(_, _)
DaysBeforeMonth(y, m) ==
    IF m <= 1 THEN 0 ELSE DaysBeforeMonth(y, m - 1) + DaysInMonth(y, m - 1)

DaysBeforeYear(y) ==
    (y - 1) * 365 + ((y - 1) \div 4) - ((y - 1) \div 100) + ((y - 1) \div 400)

\* Whether datetime.strptime(s, "%d/%m/%Y") parses s.
Parses(s) ==
    /\ Len(s) = 3
    /\ s[3] \in 1 .. 9999
    /\ s[2] \in 1 .. 12
    /\ s[1] \in 1 .. DaysInMonth(s[3], s[2])

\* datetime.strptime(s, "%d/%m/%Y"): midnight of the day written in s.
strptime(s) ==
    (DaysBeforeYear(s[3]) + DaysBeforeMonth(s[3], s[2]) + s[1]) * TicksPerDay

\* datetime.date(): the calendar day of a datetime.
date(dt) == dt \div TicksPerDay

\* The instant the service is started at: during the day of 31/01/2024.
StartTime == strptime(<<31, 1, 2024>>) + 1

\* ----------------------------------------------------------------- state
VARIABLES
    events,     \* events table: id -> [name, start_date, end_date, total_tickets, tickets_sold]
    tickets,    \* tickets table: id -> [event_id, redeemed]
    now,        \* datetime.now()
    resp,       \* the last request and its response
    attempts,   \* per event: sell_ticket calls since it was created (-1 once updated)
    pc,         \* per concurrent sell_ticket request: position in the handler
    req,        \* per concurrent sell_ticket request: event_id of the route
    session,    \* per concurrent sell_ticket request: the event loaded in its ORM session
    ret         \* per concurrent sell_ticket request: its response kind

vars == <<events, tickets, now, resp, attempts, pc, req, session, ret>>

Workers == {1, 2}

NoEvent == [name |-> "", start_date |-> 0, end_date |-> 0, total_tickets |-> 0, tickets_sold |-> 0]

Max(S) == CHOOSE x \in S : \A y \in S : y <= x

\* Primary key of the next row of a table (SQLite rowid: largest key + 1).
NextId(table) == IF DOMAIN table = {} THEN 1 ELSE Max(DOMAIN table) + 1

Response(op, id, result, value) == [op |-> op, id |-> id, result |-> result, value |-> value]

\* The response of a request with body b; the body is kept with it when log
\* is set (specifications that state what a handler does with each body).
Reply(op, id, result, value, b, log) ==
    IF log THEN [op |-> op, id |-> id, result |-> result, value |-> value, body |-> b]
    ELSE Response(op, id, result, value)

Init ==
    /\ events = <<>>
    /\ tickets = <<>>
    /\ now = StartTime
    /\ resp = Response("none", 0, "OK", 0)
    /\ attempts = <<>>
    /\ pc = [w \in Workers |-> "idle"]
    /\ req = [w \in Workers |-> 0]
    /\ session = [w \in Workers |-> NoEvent]
    /\ ret = [w \in Workers |-> "none"]

\* Rows of table t with row id added or replaced / removed.
Put(t, id, row) == [i \in DOMAIN t \cup {id} |-> IF i = id THEN row ELSE t[i]]
Remove(t, ids) == [i \in DOMAIN t \ ids |-> t[i]]

\* ---------------------------------------------------------- create_event
\* Faulty variant: the name is not required.
AllPresentNameless(name, start_str, end_str, total) ==
    start_str # <<>> /\ end_str # <<>> /\ total # 0
\* The required-field check: all([name, start_date_str, end_date_str, total_tickets]).
AllPresent(name, start_str, end_str, total) ==
    name # "" /\ start_str # <<>> /\ end_str # <<>> /\ total # 0

\* Faulty variant: no upper limit.
TotalInRangeOpen(total) == MinTotal <= total
\* total_tickets < 1 or total_tickets > 300, negated
TotalInRange(total) == MinTotal <= total /\ total <= MaxTotal

\* Faulty variant: the order of the two dates is not checked.
EndBeforeStartIgnored(end_date, start_date) == FALSE
\* end_date.date() < start_date.date()
EndBeforeStart(end_date, start_date) == date(end_date) < date(start_date)

\* The response kind of create_event for a request body, at time t.
CreateResult(name, start_str, end_str, total, t) ==
    LET start_date == strptime(start_str)
        end_date == strptime(end_str)
    IN  IF ~AllPresent(name, start_str, end_str, total) THEN "ValidationError"
        ELSE IF ~Parses(start_str) \/ ~Parses(end_str) THEN "InternalError"
        ELSE IF date(start_date) < date(t) THEN "ValidationError"
        ELSE IF EndBeforeStart(end_date, start_date) THEN "ValidationError"
        ELSE IF ~TotalInRange(total) THEN "ValidationError"
        ELSE "OK"

NewEvent(name, start_str, end_str, total) ==
    [name |-> name, start_date |-> strptime(start_str), end_date |-> strptime(end_str),
     total_tickets |-> total, tickets_sold |-> 0]

\* The handler on body b, with room for cap events in the table.
Create(b, cap, log) ==
    LET result == CreateResult(b.name, b.start_date, b.end_date, b.total_tickets, now)
        id == NextId(events)
    IN  /\ result = "OK" => id <= cap
        /\ IF result = "OK"
           THEN /\ events' = Put(events, id, NewEvent(b.name, b.start_date, b.end_date,
                                                      b.total_tickets))
                /\ attempts' = Put(attempts, id, 0)
                /\ resp' = Reply("create", id, "OK", id, b, log)
           ELSE /\ UNCHANGED <<events, attempts>>
                /\ resp' = Reply("create", 0, result, 0, b, log)
        /\ UNCHANGED <<tickets, now, pc, req, session, ret>>

create_event == \E b \in Bodies : Create(b, MaxEvents, FALSE)

\* ---------------------------------------------------------- update_event
Outcome(result, event) == [result |-> result, event |-> event]

\* Faulty variant: the comparison with tickets_sold is left out.
TotalBelowSoldSkipped(total, ev) == FALSE
\* if total_tickets < event.tickets_sold
TotalBelowSold(total, ev) == total < ev.tickets_sold

\* Faulty variant: the end date is checked against the start date as loaded.
StartCheckedAgainstLoaded(loaded, updated) == loaded.start_date
\* event.start_date as the end_date check reads it: the attribute of the
\* session's object, already reassigned to the new start date.
StartCheckedAgainst(loaded, updated) == updated.start_date

\* The handler body run on the event object ev loaded in the session: the
\* response kind and the session's object when the handler returns.
UpdateRun(ev, name, start_str, end_str, total, t) ==
    IF ~AllPresent(name, start_str, end_str, total) THEN Outcome("ValidationError", ev)
    ELSE
    LET e1 == [ev EXCEPT !.name = name]
        start_date == strptime(start_str) IN
    IF ~Parses(start_str) THEN Outcome("InternalError", e1)
    ELSE IF date(start_date) < date(t) THEN Outcome("ValidationError", e1)
    ELSE
    LET e2 == [e1 EXCEPT !.start_date = start_date]
        end_date == strptime(end_str) IN
    IF ~Parses(end_str) THEN Outcome("InternalError", e2)
    ELSE IF EndBeforeStart(end_date, StartCheckedAgainst(ev, e2))
    THEN Outcome("ValidationError", e2)
    ELSE
    LET e3 == [e2 EXCEPT !.end_date = end_date] IN
    IF TotalBelowSold(total, e3) THEN Outcome("ValidationError", e3)
    ELSE IF ~TotalInRange(total) THEN Outcome("ValidationError", e3)
    ELSE Outcome("OK", [e3 EXCEPT !.total_tickets = total])

\* Faulty variant: the session object is written back on every return.
StoredWithoutRollback(row, out) == out.event
\* The stored row after the request: db.session.commit() is reached only on
\* the success path; every early return leaves the session uncommitted and
\* the changes made to its object are dropped with the session.
Stored(row, out) == IF out.result = "OK" THEN out.event ELSE row

Update(id, b, log) ==
    IF id \notin DOMAIN events
    THEN /\ resp' = Reply("update", id, "NotFound", 0, b, log)
         /\ UNCHANGED <<events, tickets, now, attempts, pc, req, session, ret>>
    ELSE LET out == UpdateRun(events[id], b.name, b.start_date, b.end_date,
                              b.total_tickets, now)
         IN  /\ events' = Put(events, id, Stored(events[id], out))
             /\ attempts' = IF out.result = "OK" THEN Put(attempts, id, -1) ELSE attempts
             /\ resp' = Reply("update", id, out.result, 0, b, log)
             /\ UNCHANGED <<tickets, now, pc, req, session, ret>>

update_event == \E id \in EventIds, b \in Bodies : Update(id, b, FALSE)

\* ---------------------------------------------------------- delete_event
\* Faulty variant: "or" in place of "and".
DeleteRefusedEither(ev, t) == ev.tickets_sold > 0 \/ ev.end_date > t
\* event.tickets_sold > 0 and event.end_date > current_time
DeleteRefused(ev, t) == ev.tickets_sold > 0 /\ ev.end_date > t

\* Faulty variant: the cascade is not limited to the event's own tickets.
TicketsOfAny(tbl, id) == DOMAIN tbl
\* Ids of the tickets of event id (Event.tickets, deleted in cascade).
TicketsOf(tbl, id) == {k \in DOMAIN tbl : tbl[k].event_id = id}

Delete(id) ==
    IF id \notin DOMAIN events
    THEN /\ resp' = Response("delete", id, "NotFound", 0)
         /\ UNCHANGED <<events, tickets, now, attempts, pc, req, session, ret>>
    ELSE IF DeleteRefused(events[id], now)
    THEN /\ resp' = Response("delete", id, "ValidationError", 0)
         /\ UNCHANGED <<events, tickets, now, attempts, pc, req, session, ret>>
    ELSE /\ events' = Remove(events, {id})
         /\ tickets' = Remove(tickets, TicketsOf(tickets, id))
         /\ attempts' = Remove(attempts, {id})
         /\ resp' = Response("delete", id, "OK", 0)
         /\ UNCHANGED <<now, pc, req, session, ret>>

delete_event == \E id \in EventIds : Delete(id)

\* ----------------------------------------------------------- sell_ticket
\* Faulty variant: ">" in place of ">=".
SoldOutStrict(ev) == ev.tickets_sold > ev.total_tickets
\* event.tickets_sold >= event.total_tickets
SoldOut(ev) == ev.tickets_sold >= ev.total_tickets

\* Ticket(event_id=event_id), redeemed defaulting to False
NewTicket(id) == [event_id |-> id, redeemed |-> FALSE]

\* Faulty variant: the counter is not raised.
IncrementLost(ev) == ev
\* Faulty variant: the counter is raised by two.
IncrementTwice(ev) == [ev EXCEPT !.tickets_sold = ev.tickets_sold + 2]
\* event.tickets_sold += 1
Increment(ev) == [ev EXCEPT !.tickets_sold = ev.tickets_sold + 1]

\* The count of sell_ticket calls on an event since its creation, kept up to
\* one past its capacity; -1 marks an event that was updated since.
Counted(n, ev) ==
    IF n = -1 THEN -1
    ELSE IF n >= ev.total_tickets + 1 THEN ev.total_tickets + 1 ELSE n + 1

\* Faulty variant: the id of the new ticket row is returned.
ConfirmationOfTicket(ticket, tid) == tid
\* "ticket_id": ticket.event_id in the response of a sale
Confirmation(ticket, tid) == ticket.event_id

Sell(id) ==
    IF id \notin DOMAIN events
    THEN /\ resp' = Response("sell", id, "NotFound", 0)
         /\ UNCHANGED <<events, tickets, now, attempts, pc, req, session, ret>>
    ELSE IF SoldOut(events[id])
    THEN /\ resp' = Response("sell", id, "CapacityExceeded", 0)
         /\ attempts' = Put(attempts, id, Counted(attempts[id], events[id]))
         /\ UNCHANGED <<events, tickets, now, pc, req, session, ret>>
    ELSE LET ticket == NewTicket(id)
             tid == NextId(tickets)
         IN  /\ tid <= MaxTickets
             /\ events' = Put(events, id, Increment(events[id]))
             /\ tickets' = Put(tickets, tid, ticket)
             /\ attempts' = Put(attempts, id, Counted(attempts[id], events[id]))
             /\ resp' = Response("sell", id, "OK", Confirmation(ticket, tid))
             /\ UNCHANGED <<now, pc, req, session, ret>>

sell_ticket == \E id \in EventIds : Sell(id)

\* --------------------------------------------------------- redeem_ticket
\* Faulty variant: datetimes compared without .date().
InWindowByInstant(ev, t) == ev.start_date <= t /\ t <= ev.end_date
\* event.start_date.date() <= current_time.date() <= event.end_date.date()
InWindow(ev, t) == date(ev.start_date) <= date(t) /\ date(t) <= date(ev.end_date)

\* ticket.redeemed = True
Redeemed(ticket) == [ticket EXCEPT !.redeemed = TRUE]

\* Faulty variant: the ticket.redeemed check is left out.
RedeemResultUnguarded(ticket, ev, t) == IF ~InWindow(ev, t) THEN "OutOfWindow" ELSE "OK"
\* The response kind of redeem_ticket for a ticket of event ev, at time t.
RedeemResult(ticket, ev, t) ==
    IF ticket.redeemed THEN "AlreadyRedeemed"
    ELSE IF ~InWindow(ev, t) THEN "OutOfWindow"
    ELSE "OK"

\* Faulty variant: the flag is set before the window check.
AfterRedeemEager(ticket, result) ==
    IF result = "AlreadyRedeemed" THEN ticket ELSE Redeemed(ticket)
\* The stored ticket after the request: the flag is set and committed only
\* after both checks passed.
AfterRedeem(ticket, result) == IF result = "OK" THEN Redeemed(ticket) ELSE ticket

\* Faulty variant: the write reaches every ticket of the same event.
FlushedToEvent(tbl, tid, row) ==
    [k \in DOMAIN tbl |-> IF tbl[k].event_id = row.event_id THEN row ELSE tbl[k]]
\* db.session.commit(): the one row of the session's ticket object is written.
Flushed(tbl, tid, row) == Put(tbl, tid, row)

Redeem(tid) ==
    IF tid \notin DOMAIN tickets
    THEN /\ resp' = Response("redeem", tid, "NotFound", 0)
         /\ UNCHANGED <<events, tickets, now, attempts, pc, req, session, ret>>
    ELSE LET ticket == tickets[tid]
             event == events[ticket.event_id]
             result == RedeemResult(ticket, event, now)
         IN  /\ tickets' = Flushed(tickets, tid, AfterRedeem(ticket, result))
             /\ resp' = Response("redeem", tid, result, 0)
             /\ UNCHANGED <<events, now, attempts, pc, req, session, ret>>

redeem_ticket == \E tid \in TicketIds : Redeem(tid)

\* ------------------------------------- get_event_details, get_all_events
\* Faulty variant: the count is not limited to the event's tickets.
TicketsRedeemedOfAll(tbl, id) == Cardinality({k \in DOMAIN tbl : tbl[k].redeemed})
\* Ticket.query.filter_by(event_id=event_id, redeemed=True).count()
TicketsRedeemed(tbl, id) ==
    Cardinality({k \in DOMAIN tbl : tbl[k].event_id = id /\ tbl[k].redeemed})

\* The details reported for event id.
EventDetails(id) ==
    [name |-> events[id].name, start_date |-> events[id].start_date,
     end_date |-> events[id].end_date, total_tickets |-> events[id].total_tickets,
     tickets_sold |-> events[id].tickets_sold,
     tickets_redeemed |-> TicketsRedeemed(tickets, id)]

Details(id) ==
    /\ resp' = IF id \notin DOMAIN events THEN Response("details", id, "NotFound", 0)
               ELSE Response("details", id, "OK", EventDetails(id))
    /\ UNCHANGED <<events, tickets, now, attempts, pc, req, session, ret>>

get_all_events ==
    /\ resp' = IF DOMAIN events = {} THEN Response("list", 0, "NotFound", 0)
               ELSE Response("list", 0, "OK", [id \in DOMAIN events |-> EventDetails(id)])
    /\ UNCHANGED <<events, tickets, now, attempts, pc, req, session, ret>>

\* ------------------------------------------------------------------ clock
Tick ==
    /\ now < StartTime + MaxTicks
    /\ now' = now + 1
    /\ resp' = Response("tick", 0, "OK", 0)
    /\ UNCHANGED <<events, tickets, attempts, pc, req, session, ret>>

\* ------------------------------------------- concurrent sell_ticket calls
\* Two sell_ticket requests served by different threads, each with its own
\* session.  The handler takes no lock: the SELECT of get_or_404, the
\* capacity check, the increment of the loaded object and the commit are
\* separate steps, and the commit writes the tickets_sold value computed
\* from the row as it was read.

\* event = Event.query.get_or_404(event_id)
sell_begin(w) ==
    /\ pc[w] = "idle"
    /\ \E id \in EventIds :
        /\ req' = [req EXCEPT ![w] = id]
        /\ IF id \in DOMAIN events
           THEN /\ session' = [session EXCEPT ![w] = events[id]]
                /\ pc' = [pc EXCEPT ![w] = "check"]
                /\ UNCHANGED <<ret, resp>>
           ELSE /\ pc' = [pc EXCEPT ![w] = "done"]
                /\ ret' = [ret EXCEPT ![w] = "NotFound"]
                /\ resp' = Response("sell", id, "NotFound", 0)
                /\ UNCHANGED session
    /\ UNCHANGED <<events, tickets, now, attempts>>

\* if event.tickets_sold >= event.total_tickets: return ..., 400
sell_check(w) ==
    /\ pc[w] = "check"
    /\ IF SoldOut(session[w])
       THEN /\ pc' = [pc EXCEPT ![w] = "done"]
            /\ ret' = [ret EXCEPT ![w] = "CapacityExceeded"]
            /\ resp' = Response("sell", req[w], "CapacityExceeded", 0)
       ELSE /\ pc' = [pc EXCEPT ![w] = "increment"]
            /\ UNCHANGED <<ret, resp>>
    /\ UNCHANGED <<events, tickets, now, attempts, req, session>>

\* ticket = Ticket(event_id=event_id); event.tickets_sold += 1
sell_increment(w) ==
    /\ pc[w] = "increment"
    /\ session' = [session EXCEPT ![w] = Increment(session[w])]
    /\ pc' = [pc EXCEPT ![w] = "commit"]
    /\ UNCHANGED <<events, tickets, now, resp, attempts, req, ret>>

\* db.session.add(ticket); db.session.commit(): one transaction that writes
\* the changed column of the event row and inserts the ticket row.
sell_commit(w) ==
    /\ pc[w] = "commit"
    /\ NextId(tickets) <= MaxTickets
    /\ events' = [events EXCEPT ![req[w]].tickets_sold = session[w].tickets_sold]
    /\ tickets' = Put(tickets, NextId(tickets), NewTicket(req[w]))
    /\ pc' = [pc EXCEPT ![w] = "done"]
    /\ ret' = [ret EXCEPT ![w] = "OK"]
    /\ resp' = Response("sell", req[w], "OK", req[w])
    /\ UNCHANGED <<now, attempts, req, session>>

Next ==
    \/ create_event
    \/ update_event
    \/ delete_event
    \/ sell_ticket
    \/ redeem_ticket
    \/ Tick

Spec == Init /\ [][Next]_vars

\* Events are created one request at a time; two sell_ticket requests run
\* concurrently, their steps interleaved in any order.
NextConc ==
    \/ create_event
    \/ \E w \in Workers : sell_begin(w)
    \/ \E w \in Workers : sell_check(w)
    \/ \E w \in Workers : sell_increment(w)
    \/ \E w \in Workers : sell_commit(w)

SpecConc == Init /\ [][NextConc]_vars

\* create_event and update_event with the request body kept in the response,
\* among sales, deletions and the passing of time.
LoggedBodies == {b \in Bodies : b.name # "b"}
create_logged == \E b \in LoggedBodies : Create(b, MaxEvents, TRUE)
update_logged == \E id \in EventIds, b \in LoggedBodies : Update(id, b, TRUE)

NextReq ==
    \/ create_logged
    \/ update_logged
    \/ sell_ticket
    \/ delete_event
    \/ Tick

SpecReq == Init /\ [][NextReq]_vars

\* Two events side by side: requests with well-formed bodies on either of
\* them, served one at a time.
TwoIds == 1 .. MaxEvents + 1
TwoBodies ==
    {b \in Bodies : /\ b.name = "a" /\ b.end_date = <<1, 2, 2024>>
                    /\ b.start_date \in {<<31, 1, 2024>>, <<1, 2, 2024>>}
                    /\ b.total_tickets \in {1, 2, 301}}
create_two == \E b \in TwoBodies : Create(b, MaxEvents + 1, FALSE)
update_two == \E id \in TwoIds, b \in TwoBodies : Update(id, b, FALSE)
delete_two == \E id \in TwoIds : Delete(id)
sell_two == \E id \in TwoIds : Sell(id)
get_event_details == \E id \in TwoIds : Details(id)

NextTwo ==
    \/ create_two
    \/ update_two
    \/ delete_two
    \/ sell_two
    \/ redeem_ticket
    \/ get_event_details
    \/ get_all_events
    \/ Tick

SpecTwo == Init /\ [][NextTwo]_vars

\* ================================================================ claims
\* Tickets of event e, counted from the tickets table.
Owned(tbl, e) == {k \in DOMAIN tbl : tbl[k].event_id = e}

\* The request of the step taken was op on id.
Did(op, id) == resp'.op = op /\ resp'.id = id

\* C1: in every state reached by requests served one at a time, every
\* existing event has tickets_sold <= total_tickets.
C1_SoldWithinTotal ==
    \A e \in DOMAIN events : events[e].tickets_sold <= events[e].total_tickets

\* An event sold up to its capacity of 2 has just refused a further sale.
C1_Witness ==
    /\ resp.op = "sell" /\ resp.result = "CapacityExceeded"
    /\ events[resp.id].tickets_sold = 2
    /\ events[resp.id].total_tickets = 2

\* The tickets_sold value a finished concurrent request read from the row.
ReadSold(w) ==
    IF ret[w] = "OK" THEN session[w].tickets_sold - 1 ELSE session[w].tickets_sold

\* Both concurrent requests finished on event e, each having read the row
\* with exactly one slot left.
LastSlotRace(e) ==
    \A w \in Workers :
        /\ pc[w] = "done" /\ req[w] = e /\ ret[w] # "NotFound"
        /\ ReadSold(w) = events[e].total_tickets - 1

\* C2: of two concurrent sell_ticket calls on the last slot of an event
\* exactly one succeeds, the other fails with CapacityExceeded, and
\* tickets_sold <= total_tickets afterwards.
C2_OneSaleOnLastSlot ==
    \A e \in DOMAIN events :
        LastSlotRace(e) =>
            /\ Cardinality({w \in Workers : ret[w] = "OK"}) = 1
            /\ Cardinality({w \in Workers : ret[w] = "CapacityExceeded"}) = 1
            /\ events[e].tickets_sold <= events[e].total_tickets

\* C3: the k-th sell_ticket call on an event that was created with capacity
\* N and not updated since succeeds for k <= N and fails with
\* CapacityExceeded for k = N + 1; and a sell_ticket call on an existing
\* event fails exactly when tickets_sold >= total_tickets.
C3_SellStep ==
    \A e \in DOMAIN events :
        Did("sell", e) =>
            /\ resp'.result = "CapacityExceeded"
                   <=> events[e].tickets_sold >= events[e].total_tickets
            /\ resp'.result = "OK"
                   <=> events[e].tickets_sold < events[e].total_tickets
            /\ (attempts[e] # -1 /\ attempts[e] < events[e].total_tickets)
                   => resp'.result = "OK"
            /\ (attempts[e] # -1 /\ attempts[e] = events[e].total_tickets)
                   => resp'.result = "CapacityExceeded"
C3_SellUntilCapacity == [][C3_SellStep]_vars

\* The third call on a fresh event of capacity 2 was refused.
C3_Witness ==
    /\ resp.op = "sell" /\ resp.result = "CapacityExceeded"
    /\ resp.id \in DOMAIN events
    /\ attempts[resp.id] = 3
    /\ events[resp.id].total_tickets = 2

\* C4: tickets_sold of every event equals the number of its tickets; a
\* successful sell_ticket adds exactly one ticket, unredeemed, and raises
\* tickets_sold by exactly 1; no other request adds a ticket or changes
\* tickets_sold of an event.
C4_Counted ==
    \A e \in DOMAIN events : events[e].tickets_sold = Cardinality(Owned(tickets, e))
C4_Step ==
    IF resp'.op = "sell" /\ resp'.result = "OK"
    THEN /\ \E k \in DOMAIN tickets' \ DOMAIN tickets :
              /\ DOMAIN tickets' = DOMAIN tickets \cup {k}
              /\ tickets'[k] = [event_id |-> resp'.id, redeemed |-> FALSE]
         /\ events'[resp'.id].tickets_sold = events[resp'.id].tickets_sold + 1
    ELSE /\ DOMAIN tickets' \subseteq DOMAIN tickets
         /\ \A e \in DOMAIN events \cap DOMAIN events' :
              events'[e].tickets_sold = events[e].tickets_sold
C4_SoldMatchesTickets == [][C4_Step /\ C4_Counted']_vars

\* Two tickets sold on one event, the second just now.
C4_Witness ==
    /\ resp.op = "sell" /\ resp.result = "OK"
    /\ events[resp.id].tickets_sold = 2
    /\ Cardinality(Owned(tickets, resp.id)) = 2

\* C5: a redeemed ticket stays redeemed for as long as it exists, and
\* redeem_ticket on a redeemed ticket fails with AlreadyRedeemed, leaving
\* the tickets as they are.
C5_Step ==
    /\ \A k \in DOMAIN tickets \cap DOMAIN tickets' :
           tickets[k].redeemed => tickets'[k].redeemed
    /\ \A k \in DOMAIN tickets :
           (Did("redeem", k) /\ tickets[k].redeemed) =>
               resp'.result = "AlreadyRedeemed" /\ tickets' = tickets
C5_RedeemOneWay == [][C5_Step]_vars

\* A second redemption of a ticket was just refused.
C5_Witness ==
    /\ resp.op = "redeem" /\ resp.result = "AlreadyRedeemed"
    /\ tickets[resp.id].redeemed

\* C6: redeem_ticket on an unredeemed ticket succeeds exactly when the
\* current calendar day lies in [start day, end day] of its event, both
\* included, whatever the time of day; otherwise it fails with OutOfWindow
\* and the ticket stays unredeemed.
C6_Step ==
    \A k \in DOMAIN tickets :
        (Did("redeem", k) /\ ~tickets[k].redeemed) =>
            LET ev == events[tickets[k].event_id]
                today == now \div TicksPerDay
                inside == /\ ev.start_date \div TicksPerDay <= today
                          /\ today <= ev.end_date \div TicksPerDay
            IN  IF inside
                THEN resp'.result = "OK" /\ tickets'[k].redeemed
                ELSE resp'.result = "OutOfWindow" /\ tickets' = tickets
C6_RedeemWindow == [][C6_Step]_vars

\* A ticket was redeemed on the last day of its event, after midnight.
C6_Witness ==
    /\ resp.op = "redeem" /\ resp.result = "OK"
    /\ tickets[resp.id].redeemed
    /\ events[tickets[resp.id].event_id].end_date < now

\* C7: delete_event on an existing event fails with ValidationError when
\* tickets_sold > 0 and end_date (the midnight that opens the end day) is
\* later than the current time; in every other case it succeeds and the
\* event is gone.
C7_Step ==
    \A e \in DOMAIN events :
        Did("delete", e) =>
            IF events[e].tickets_sold > 0 /\ events[e].end_date > now
            THEN resp'.result = "ValidationError" /\ e \in DOMAIN events'
            ELSE resp'.result = "OK" /\ e \notin DOMAIN events'
C7_DeleteRule == [][C7_Step]_vars

\* A deletion was refused: tickets are sold and the end date is ahead.
C7_Witness ==
    /\ resp.op = "delete" /\ resp.result = "ValidationError"
    /\ events[resp.id].tickets_sold > 0
    /\ events[resp.id].end_date > now

\* C8: delete_event never succeeds on an event with sold tickets on a day
\* on which they are still redeemable (current day <= end day).
C8_Step ==
    \A e \in DOMAIN events :
        (Did("delete", e) /\ resp'.result = "OK" /\ events[e].tickets_sold > 0) =>
            now \div TicksPerDay > events[e].end_date \div TicksPerDay
C8_NoDeleteWhileRedeemable == [][C8_Step]_vars

\* C9: an update_event call that fails with ValidationError leaves every
\* field of every event as it was.
C9_Step == (resp'.op = "update" /\ resp'.result = "ValidationError") => events' = events
C9_FailedUpdateKeepsFields == [][C9_Step]_vars

\* An update was just refused on an event whose two tickets are sold.
C9_Witness ==
    /\ resp.op = "update" /\ resp.result = "ValidationError"
    /\ resp.id \in DOMAIN events
    /\ events[resp.id].tickets_sold = 2
    /\ events[resp.id].name = "a"

\* C10: a rejected sell_ticket, redeem_ticket or delete_event leaves the
\* events and the tickets as they were.
C10_Step ==
    (resp'.op \in {"sell", "redeem", "delete"} /\ resp'.result # "OK") =>
        events' = events /\ tickets' = tickets
C10_RejectedKeepsState == [][C10_Step]_vars

\* A redemption was just refused for falling outside the event's window.
C10_Witness ==
    /\ resp.op = "redeem" /\ resp.result = "OutOfWindow"
    /\ ~tickets[resp.id].redeemed

\* The calendar day a date string names, and whether it names one.
DayOf(str) == date(strptime(str))
Dated(str) == str # <<>> /\ Parses(str)

\* C11: create_event succeeds exactly when the four fields are present (a
\* total_tickets of 0 counting as missing), start_date is not before the
\* current day, end_date is not before start_date and total_tickets is in
\* 1..300; the event it creates has tickets_sold = 0 and no tickets; a
\* rejected create_event creates nothing.
C11_Step ==
    resp'.op = "create" =>
        LET b == resp'.body
            accepted ==
                /\ b.name # "" /\ b.total_tickets # 0
                /\ Dated(b.start_date) /\ Dated(b.end_date)
                /\ DayOf(b.start_date) >= now \div TicksPerDay
                /\ DayOf(b.end_date) >= DayOf(b.start_date)
                /\ 1 <= b.total_tickets /\ b.total_tickets <= 300
        IN  IF accepted
            THEN /\ resp'.result = "OK"
                 /\ resp'.id \notin DOMAIN events
                 /\ DOMAIN events' = DOMAIN events \cup {resp'.id}
                 /\ \A e \in DOMAIN events : events'[e] = events[e]
                 /\ events'[resp'.id].tickets_sold = 0
                 /\ events'[resp'.id].total_tickets = b.total_tickets
                 /\ Owned(tickets', resp'.id) = {}
            ELSE /\ resp'.result # "OK"
                 /\ events' = events /\ tickets' = tickets
C11_CreateRule == [][C11_Step]_vars

\* An event of capacity 2 was just created, a day after the service started.
C11_Witness ==
    /\ resp.op = "create" /\ resp.result = "OK"
    /\ resp.body.total_tickets = 2
    /\ events[resp.id].tickets_sold = 0
    /\ now \div TicksPerDay > StartTime \div TicksPerDay

\* C12: in every state reached by create_event and update_event calls,
\* accepted or rejected, every event has end_date >= start_date.
C12_EndNotBeforeStart ==
    \A e \in DOMAIN events : events[e].end_date >= events[e].start_date

\* An accepted update has set both dates of an event to 01/02/2024.
C12_Witness ==
    /\ resp.op = "update" /\ resp.result = "OK"
    /\ events[resp.id].start_date = strptime(<<1, 2, 2024>>)
    /\ events[resp.id].end_date = strptime(<<1, 2, 2024>>)

\* C13: every ticket references an existing event; the event_id of a ticket
\* never changes; tickets are created only by a successful sell_ticket; a
\* successful delete_event removes every ticket of the deleted event and no
\* ticket of any other event, and nothing else removes a ticket.
C13_Step ==
    /\ \A k \in DOMAIN tickets' : tickets'[k].event_id \in DOMAIN events'
    /\ \A k \in DOMAIN tickets \cap DOMAIN tickets' :
           tickets'[k].event_id = tickets[k].event_id
    /\ DOMAIN tickets' \ DOMAIN tickets # {} => resp'.op = "sell" /\ resp'.result = "OK"
    /\ IF resp'.op = "delete" /\ resp'.result = "OK"
       THEN DOMAIN tickets' = {k \in DOMAIN tickets : tickets[k].event_id # resp'.id}
       ELSE DOMAIN tickets \subseteq DOMAIN tickets'
C13_TicketsBelongToEvents == [][C13_Step]_vars

\* The first event was just deleted with its ticket; the ticket of the
\* second event is still there.
C13_Witness ==
    /\ resp.op = "delete" /\ resp.result = "OK" /\ resp.id = 1
    /\ DOMAIN events = {2}
    /\ DOMAIN tickets = {2}
    /\ tickets[2].event_id = 2

\* Both concurrent requests finished on event e with a sale.
BothSold(e) ==
    \A w \in Workers : pc[w] = "done" /\ req[w] = e /\ ret[w] = "OK"

\* tickets_sold of the event before either of the two requests read it.
SoldBefore == IF ReadSold(1) <= ReadSold(2) THEN ReadSold(1) ELSE ReadSold(2)

\* C14: when two concurrent sell_ticket calls both succeed on an event that
\* had at least two free slots, tickets_sold has grown by exactly 2 and
\* equals the number of tickets of the event.
C14_NoLostIncrement ==
    \A e \in DOMAIN events :
        (BothSold(e) /\ SoldBefore + 2 <= events[e].total_tickets) =>
            /\ events[e].tickets_sold = SoldBefore + 2
            /\ events[e].tickets_sold = Cardinality(Owned(tickets, e))

\* C15: every event has 1 <= total_tickets <= 300; create_event and
\* update_event reject a total_tickets outside that range, and update_event
\* also rejects one below the tickets_sold of the event.
C15_Step ==
    /\ \A e \in DOMAIN events' :
           1 <= events'[e].total_tickets /\ events'[e].total_tickets <= 300
    /\ resp'.op \in {"create", "update"} =>
           LET total == resp'.body.total_tickets
           IN  /\ (total < 1 \/ total > 300) => resp'.result # "OK"
               /\ (resp'.op = "update" /\ resp'.id \in DOMAIN events
                      /\ total < events[resp'.id].tickets_sold) => resp'.result # "OK"
               /\ resp'.result = "OK" => events'[resp'.id].total_tickets = total
C15_TotalInRange == [][C15_Step]_vars

\* An update asking for 301 tickets was just refused; the event keeps its
\* capacity of 2.
C15_Witness ==
    /\ resp.op = "update" /\ resp.result = "ValidationError"
    /\ resp.body.total_tickets = 301
    /\ resp.id \in DOMAIN events
    /\ events[resp.id].total_tickets = 2

\* C16: across every step, tickets_sold of an event that survives the step
\* is unchanged or larger by exactly 1, the latter only by a successful
\* sell_ticket on that event; update_event and redeem_ticket never change it.
C16_Step ==
    \A e \in DOMAIN events \cap DOMAIN events' :
        /\ \/ events'[e].tickets_sold = events[e].tickets_sold
           \/ /\ events'[e].tickets_sold = events[e].tickets_sold + 1
              /\ Did("sell", e) /\ resp'.result = "OK"
        /\ resp'.op \in {"update", "redeem"} =>
               events'[e].tickets_sold = events[e].tickets_sold
C16_SoldNeverDecreases == [][C16_Step]_vars

\* An accepted update was just served on an event with one ticket sold,
\* which it still has.
C16_Witness ==
    /\ resp.op = "update" /\ resp.result = "OK"
    /\ events[resp.id].tickets_sold = 1
    /\ events[resp.id].total_tickets = 1
    /\ Cardinality(Owned(tickets, resp.id)) = 1

\* C17: update_event assigns the new start date before it checks the new
\* end date: a request on an existing event with a name, a total_tickets
\* within 1..300 and not below tickets_sold, a start date not before the
\* current day and an end date is accepted exactly when the new end date is
\* not before the new start date, whatever dates the event had; the
\* accepted dates are then the stored ones.
C17_Step ==
    (resp'.op = "update" /\ resp'.id \in DOMAIN events) =>
        LET b == resp'.body
            ev == events[resp'.id]
        IN  ( /\ b.name # ""
              /\ 1 <= b.total_tickets /\ b.total_tickets <= 300
              /\ b.total_tickets >= ev.tickets_sold
              /\ Dated(b.start_date) /\ Dated(b.end_date)
              /\ DayOf(b.start_date) >= now \div TicksPerDay )
            => IF DayOf(b.end_date) >= DayOf(b.start_date)
               THEN /\ resp'.result = "OK"
                    /\ events'[resp'.id].start_date = strptime(b.start_date)
                    /\ events'[resp'.id].end_date = strptime(b.end_date)
               ELSE resp'.result = "ValidationError" /\ events' = events
C17_StartAppliedBeforeEndCheck == [][C17_Step]_vars

\* A new end date on the day the event starts was just refused because the
\* same request moves the start a day later.
C17_Witness ==
    /\ resp.op = "update" /\ resp.result = "ValidationError"
    /\ resp.id \in DOMAIN events
    /\ resp.body.name # "" /\ resp.body.total_tickets = 2
    /\ events[resp.id].start_date = strptime(<<31, 1, 2024>>)
    /\ resp.body.end_date = <<31, 1, 2024>>
    /\ resp.body.start_date = <<1, 2, 2024>>
    /\ events[resp.id].tickets_sold = 0

\* C18: a successful redeem_ticket turns the redeemed flag of the named
\* ticket from false to true and changes nothing else: not the ticket's
\* event_id, no other ticket, no field of any event.
C18_Step ==
    (resp'.op = "redeem" /\ resp'.result = "OK") =>
        LET k == resp'.id
        IN  /\ k \in DOMAIN tickets
            /\ ~tickets[k].redeemed
            /\ tickets' = [tickets EXCEPT ![k] = [event_id |-> tickets[k].event_id,
                                                  redeemed |-> TRUE]]
            /\ events' = events
C18_RedeemFrame == [][C18_Step]_vars

\* The first of two tickets of an event was just redeemed, the second is
\* not; another event exists beside theirs.
C18_Witness ==
    /\ resp.op = "redeem" /\ resp.result = "OK" /\ resp.id = 1
    /\ DOMAIN tickets = {1, 2}
    /\ tickets[1].redeemed /\ ~tickets[2].redeemed
    /\ tickets[2].event_id = tickets[1].event_id
    /\ Cardinality(DOMAIN events) = 2

\* C19: the confirmation id returned by a successful sell_ticket is the id
\* of the event, which is the event_id of the new ticket and not the id of
\* the ticket; two successful sales in a row on one event return the same
\* value.
C19_Step ==
    (resp'.op = "sell" /\ resp'.result = "OK") =>
        /\ resp'.value = resp'.id
        /\ \A k \in DOMAIN tickets' \ DOMAIN tickets : resp'.value = tickets'[k].event_id
        /\ (resp.op = "sell" /\ resp.result = "OK" /\ resp.id = resp'.id) =>
               resp'.value = resp.value
C19_ConfirmationIsEventId == [][C19_Step]_vars

\* The second ticket of event 1 was just sold: the ticket has id 2, the
\* confirmation is 1.
C19_Witness ==
    /\ resp.op = "sell" /\ resp.result = "OK" /\ resp.value = 1
    /\ DOMAIN tickets = {1, 2}
    /\ tickets[2].event_id = 1
    /\ events[1].tickets_sold = 2

\* What a report says of one event.
Consistent(report) ==
    /\ report.tickets_redeemed <= report.tickets_sold
    /\ report.tickets_sold <= report.total_tickets

\* C20: the tickets_redeemed that get_event_details and get_all_events
\* report for an event is at most its tickets_sold, and so at most its
\* total_tickets.
C20_RedeemedWithinSold ==
    /\ \A e \in DOMAIN events : Consistent(EventDetails(e))
    /\ (resp.op = "details" /\ resp.result = "OK") => Consistent(resp.value)
    /\ (resp.op = "list" /\ resp.result = "OK") =>
           \A e \in DOMAIN resp.value : Consistent(resp.value[e])

\* The list just reported two events: one with two tickets sold and one of
\* them redeemed, the other with none sold.
C20_Witness ==
    /\ resp.op = "list" /\ resp.result = "OK"
    /\ DOMAIN resp.value = {1, 2}
    /\ resp.value[1].tickets_sold = 2 /\ resp.value[1].tickets_redeemed = 1
    /\ resp.value[2].tickets_sold = 0 /\ resp.value[2].tickets_redeemed = 0
====
